---- MODULE Spec2Model ----
(***************************************************************************)
(* A model of the btree container of btree.h and of its iterators of       *)
(* btree_iterator.h.  The heap is an arena of Node objects, a btree object *)
(* holds its rootNode, and every public operation of btree is one action.  *)
(* An iterator is the pair (ptr, pos); pos is kept as the offset           *)
(* pos - ptr->val.begin().                                                 *)
(***************************************************************************)
EXTENDS Integers, Sequences, FiniteSets, TLC

\* ------------------------------------------------------------- bounds
\* Elements are the integers 1..MaxElem (T = int).
MaxElem == 4
\* Trees are constructed with maxNodeElems in 1..MaxCap.
MaxCap == 2

Elems == 1 .. MaxElem
Caps == 1 .. MaxCap
\* Two btree objects exist in the client program.
TreeIds == {1, 2}
\* Every node but an empty root holds an element, so two trees never need
\* more than 2 * MaxElem nodes at once.
NodeIds == 1 .. (2 * MaxElem)
\* nullptr, for Node pointers and for btree pointers.
Null == 0

VARIABLES
    nodes,     \* the heap: NodeIds -> Node object (or FreeNode)
    rootNode,  \* btree::rootNode of each btree object
    live,      \* whether the btree object is constructed
    elems,     \* history: the elements inserted so far into each btree
    res        \* the last call and what it returned

vars == <<nodes, rootNode, live, elems, res>>

\* ------------------------------------------------------------- Node
FreeNode ==
    [used |-> FALSE, root |-> Null, parent |-> Null, children |-> <<>>,
     maxSize |-> 0, val |-> <<>>]

\* Node(btree *b, Node *n, size): children{size+1, nullptr}, val empty.
NewNode(b, n, size) ==
    [used |-> TRUE, root |-> b, parent |-> n,
     children |-> [i \in 1 .. (size + 1) |-> Null],
     maxSize |-> size, val |-> <<>>]

\* children[i] of node n, i counted from 0 as in the code.
Child(N, n, i) == N[n].children[i + 1]

\* val[i] of node n, i counted from 0.
ValAt(N, n, i) == N[n].val[i + 1]

Size(N, n) == Len(N[n].val)

\* std::make_shared<Node>: the address of the new object.
Fresh(N) == CHOOSE id \in NodeIds :
               /\ ~N[id].used
               /\ \A j \in NodeIds : j < id => N[j].used

\* std::lower_bound(val.begin(), val.end(), e) - val.begin(): the first
\* offset whose element is not less than e, or val.size().
LowerBound(v, e) ==
    CHOOSE i \in 0 .. Len(v) :
        /\ \A j \in 1 .. i : v[j] < e
        /\ i < Len(v) => ~(v[i + 1] < e)

\* std::vector::insert(val.begin() + i, e).
VecInsert(v, i, e) == SubSeq(v, 1, i) \o <<e>> \o SubSeq(v, i + 1, Len(v))

\* An iterator: (ptr, pos - ptr->val.begin()).
Pos(n, i) == [node |-> n, idx |-> i]

\* The outcome of dereferencing a null pointer.
Crash == [node |-> Null, idx |-> 0]

\* ------------------------------------------------------------- insert
\* The size test of nodeInsert with the bound off by one.
HasRoomOffByOne(N, n) == Size(N, n) <= N[n].maxSize

\* static_cast<unsigned>(val.size()) < maxSize
HasRoom(N, n) == Size(N, n) < N[n].maxSize

\* itPos of nodeInsert had it used std::upper_bound: the first offset whose
\* element is greater than e.
InsertPointUpper(v, e) ==
    CHOOSE i \in 0 .. Len(v) :
        /\ \A j \in 1 .. i : ~(e < v[j])
        /\ i < Len(v) => e < v[i + 1]

\* itPos of nodeInsert.
InsertPoint(v, e) == LowerBound(v, e)

\* btree::Node::nodeInsert: the new heap, the returned iterator and flag.
RECURSIVE nodeInsert(_, _, _)
nodeInsert(N, n, e) ==
    IF N[n].val = <<>>
    THEN [N |-> [N EXCEPT ![n].val = <<e>>], pos |-> Pos(n, 0), ok |-> TRUE]
    ELSE
      LET p == InsertPoint(N[n].val, e) IN
      IF p # Size(N, n) /\ ValAt(N, n, p) = e
      THEN [N |-> N, pos |-> Pos(n, p), ok |-> FALSE]
      ELSE IF HasRoom(N, n)
      THEN [N |-> [N EXCEPT ![n].val = VecInsert(N[n].val, p, e)],
            pos |-> Pos(n, p), ok |-> TRUE]
      ELSE IF Child(N, n, p) # Null
      THEN nodeInsert(N, Child(N, n, p), e)
      ELSE
        LET c == Fresh(N)
            N1 == [N EXCEPT ![c] = NewNode(N[n].root, n, N[n].maxSize),
                            ![n].children[p + 1] = c]
        IN nodeInsert(N1, c, e)

\* ------------------------------------------------------------- begin / end
\* btree::Node::nodeBegin (and cNodeBegin, the same code on a const Node).
RECURSIVE nodeBegin(_, _)
nodeBegin(N, n) ==
    IF Child(N, n, 0) # Null
    THEN nodeBegin(N, Child(N, n, 0))
    ELSE Pos(n, 0)

\* btree::Node::nodeEnd (and cNodeEnd).
RECURSIVE nodeEnd(_, _)
nodeEnd(N, n) ==
    IF Child(N, n, Size(N, n)) # Null
    THEN nodeEnd(N, Child(N, n, Size(N, n)))
    ELSE Pos(n, Size(N, n))

\* btree::begin / btree::end on the btree object t: rootNode->nodeBegin().
treeBegin(N, R, t) == IF t = Null \/ R[t] = Null THEN Crash ELSE nodeBegin(N, R[t])
treeEnd(N, R, t) == IF t = Null \/ R[t] = Null THEN Crash ELSE nodeEnd(N, R[t])

\* The value of the vector iterator pos: a vector that never allocated has
\* begin() = end() = nullptr, otherwise the address is buffer + offset.
Addr(N, p) == IF p.node = Null \/ N[p.node].val = <<>> THEN <<Null, 0>>
              ELSE <<p.node, p.idx>>

\* operator== of the iterators: this->pos == other.pos (ptr is not compared).
IterEq(N, p, q) == Addr(N, p) = Addr(N, q)

\* ------------------------------------------------------------- find
\* (*itPos) == elem as nodeFind evaluates it, with no test of itPos against
\* val.end().  Inside the buffer it compares the element.  At val.end() of a
\* non-empty vector it reads whatever lies behind the last element: the read
\* compares equal exactly at the node `hit` (Null: at no node).
DerefEquals(N, n, p, e, hit) ==
    IF p < Size(N, n) THEN ValAt(N, n, p) = e ELSE n = hit

\* Whether (*itPos) reads outside the elements of the node.
ReadsPastEnd(N, n, p) == p >= Size(N, n)

\* btree::Node::nodeFind (and cNodeFind, the same code returning a
\* const_iterator): the returned iterator, and the nodes at which itPos was
\* dereferenced at val.end().
RECURSIVE nodeFind(_, _, _, _, _)
nodeFind(N, R, n, e, hit) ==
    LET p == LowerBound(N[n].val, e)
        past == IF ReadsPastEnd(N, n, p) THEN {n} ELSE {}
    IN
    IF N[n].val = <<>>
    THEN \* *itPos with itPos = nullptr
         [pos |-> Crash, crash |-> TRUE, past |-> past]
    ELSE IF DerefEquals(N, n, p, e, hit)
    THEN [pos |-> Pos(n, p), crash |-> FALSE, past |-> past]
    ELSE IF Child(N, n, p) # Null
    THEN LET r == nodeFind(N, R, Child(N, n, p), e, hit) IN
         [r EXCEPT !.past = @ \cup past]
    ELSE [pos |-> treeEnd(N, R, N[n].root), crash |-> FALSE, past |-> past]

\* ------------------------------------------------------------- operator++
\* The ascent loop of operator++ from the iterator p, temp the element left.
RECURSIVE IncAscend(_, _, _, _)
IncAscend(N, R, temp, p) ==
    LET e == treeEnd(N, R, N[p.node].root) IN
    IF e = Crash THEN Crash
    ELSE IF IterEq(N, p, e) THEN p
    ELSE
      LET par == N[p.node].parent IN
      IF par = Null THEN Crash
      ELSE
        LET q == Pos(par, LowerBound(N[par].val, temp)) IN
        IF q.idx # Size(N, par) THEN q ELSE IncAscend(N, R, temp, q)

\* operator++ that never ascends: it stays at val.end() of its node.
IterIncNoAscend(N, R, p) ==
    LET n == p.node
        offset == p.idx + 1
    IN
    IF Child(N, n, offset) # Null
    THEN nodeBegin(N, Child(N, n, offset))
    ELSE Pos(n, p.idx + 1)

\* btree_iterator::operator++ (and const_btree_iterator::operator++) on a
\* dereferenceable iterator p.
IterInc(N, R, p) ==
    LET n == p.node
        temp == ValAt(N, n, p.idx)
        offset == p.idx + 1
    IN
    IF Child(N, n, offset) # Null
    THEN nodeBegin(N, Child(N, n, offset))
    ELSE IF p.idx + 1 = Size(N, n)
    THEN IncAscend(N, R, temp, Pos(n, p.idx + 1))
    ELSE Pos(n, p.idx + 1)

\* ------------------------------------------------------------- operator--
\* The descent of operator-- to the last element of the subtree of n.
RECURSIVE Rightmost(_, _)
Rightmost(N, n) ==
    IF Child(N, n, Size(N, n)) # Null
    THEN Rightmost(N, Child(N, n, Size(N, n)))
    ELSE Pos(n, Size(N, n) - 1)

\* The ascent loop of operator-- from the iterator p.
RECURSIVE DecAscend(_, _, _, _)
DecAscend(N, R, temp, p) ==
    LET b == treeBegin(N, R, N[p.node].root) IN
    IF b = Crash THEN Crash
    ELSE IF IterEq(N, p, b) THEN p
    ELSE
      LET par == N[p.node].parent IN
      IF par = Null THEN Crash
      ELSE
        LET q == Pos(par, LowerBound(N[par].val, temp)) IN
        IF q.idx # 0 THEN Pos(par, q.idx - 1) ELSE DecAscend(N, R, temp, q)

\* btree_iterator::operator-- (and const_btree_iterator::operator--).  At
\* val.end() of a non-empty node T temp = (*pos) reads behind the last
\* element and gets the value g; on an empty vector pos is nullptr.
IterDec(N, R, p, g) ==
    LET n == p.node
        temp == IF p.idx < Size(N, n) THEN ValAt(N, n, p.idx) ELSE g
        offset == p.idx
    IN
    IF N[n].val = <<>> THEN Crash
    ELSE IF Child(N, n, offset) # Null
    THEN Rightmost(N, Child(N, n, offset))
    ELSE IF p.idx = 0
    THEN DecAscend(N, R, temp, p)
    ELSE Pos(n, p.idx - 1)

\* ------------------------------------------------------------- copy / move
\* Node(const Node& n) through std::make_shared: root and parent are copied
\* from n, val is copied, and every present child is copied in slot order.
RECURSIVE CopyNode(_, _)
RECURSIVE CopyChildren(_, _, _, _)
CopyNode(N, s) ==
    LET id == Fresh(N) IN
    CopyChildren([N EXCEPT ![id] = [NewNode(N[s].root, N[s].parent, N[s].maxSize)
                                       EXCEPT !.val = N[s].val]],
                 s, id, 0)

\* Node(const Node&) that shares the children of n instead of copying them.
CopyChildrenShared(N, s, id, i) ==
    [N |-> [N EXCEPT ![id].children = N[s].children], id |-> id]

\* The loop of Node(const Node& n) over n.children, from slot i on.
CopyChildren(N, s, id, i) ==
    IF i >= Len(N[s].children) THEN [N |-> N, id |-> id]
    ELSE IF Child(N, s, i) = Null THEN CopyChildren(N, s, id, i + 1)
    ELSE LET r == CopyNode(N, Child(N, s, i)) IN
         CopyChildren([r.N EXCEPT ![id].children[i + 1] = r.id], s, id, i + 1)

\* btree::Node::changeRoot
RECURSIVE changeRoot(_, _, _)
RECURSIVE changeRootFrom(_, _, _, _)
changeRoot(N, n, b) == changeRootFrom([N EXCEPT ![n].root = b], n, b, 0)

\* The loop of changeRoot over children, from slot i on.
changeRootFrom(N, n, b, i) ==
    IF i >= Len(N[n].children) THEN N
    ELSE IF Child(N, n, i) = Null THEN changeRootFrom(N, n, b, i + 1)
    ELSE changeRootFrom(changeRoot(N, Child(N, n, i), b), n, b, i + 1)

\* btree::Node::changeParent
RECURSIVE changeParent(_, _, _)
RECURSIVE changeParentFrom(_, _, _, _)
changeParent(N, n, par) == changeParentFrom([N EXCEPT ![n].parent = par], n, par, 0)

\* changeParent handing its own argument n down instead of this.
RECURSIVE changeParentFromArg(_, _, _, _)
changeParentFromArg(N, n, par, i) ==
    IF i >= Len(N[n].children) THEN N
    ELSE IF Child(N, n, i) = Null THEN changeParentFromArg(N, n, par, i + 1)
    ELSE changeParentFromArg(changeParent(N, Child(N, n, i), par), n, par, i + 1)

\* The loop of changeParent over children: children[i]->changeParent(this).
changeParentFrom(N, n, par, i) ==
    IF i >= Len(N[n].children) THEN N
    ELSE IF Child(N, n, i) = Null THEN changeParentFrom(N, n, par, i + 1)
    ELSE changeParentFrom(changeParent(N, Child(N, n, i), n), n, par, i + 1)

\* rootNode.reset() on the last owner of n: ~Node destroys the children
\* vector, every child in it loses its last owner too, and n is released.
RECURSIVE Reset(_, _)
RECURSIVE ResetFrom(_, _, _)
Reset(N, n) ==
    IF n = Null THEN N ELSE [ResetFrom(N, n, 0) EXCEPT ![n] = FreeNode]

\* The destruction of the children of n, from slot i on.
ResetFrom(N, n, i) ==
    IF i >= Len(N[n].children) THEN N
    ELSE IF Child(N, n, i) = Null THEN ResetFrom(N, n, i + 1)
    ELSE ResetFrom(Reset(N, Child(N, n, i)), n, i + 1)

\* The local btree tmp of copy assignment.
TmpTree == 3

\* The heap after btree(const btree& original) built the btree object b from
\* a source with a root.
CopyTree(N, srcRoot, b) ==
    LET r == CopyNode(N, srcRoot)
        N1 == changeRoot(r.N, r.id, b)
    IN [N |-> changeParent(N1, r.id, Null), root |-> r.id]

\* ------------------------------------------------------------- results
NoRes ==
    [op |-> "none", t |-> Null, src |-> Null, e |-> 0, pos |-> Crash,
     ok |-> FALSE, past |-> {}, out |-> <<>>, call |-> ""]

\* The process died on a null pointer.
Crashed == res.op = "crash"
CrashRes(call) == [NoRes EXCEPT !.op = "crash", !.call = call]

\* A btree object that can be used: constructed and not moved from.
Usable(t) == live[t] /\ rootNode[t] # Null

\* The client holds an iterator into btree res.t, returned by the last call.
HasIter == /\ res.op \in {"insert", "find", "begin", "end", "inc", "dec"}
           /\ Usable(res.t)

\* The iterator can be dereferenced: it stands on an element.
OnElement(N, p) == p # Crash /\ p.idx < Size(N, p.node)

\* What T temp = (*pos) can read behind the last element of a vector<int>:
\* a value below, among or above the elements.
Garbage == 0 .. (MaxElem + 1)

\* ------------------------------------------------------------- operator<<
\* The space operator<< writes between elements.
Space == 0

\* The for loop of operator<<, it the const_iterator and out the stream.
RECURSIVE DumpLoop(_, _, _, _, _)
DumpLoop(N, R, t, it, out) ==
    IF it = Crash \/ IterEq(N, it, treeEnd(N, R, t)) \/ ~OnElement(N, it)
    THEN out
    ELSE DumpLoop(N, R, t, IterInc(N, R, it),
                  out \o <<Space, ValAt(N, it.node, it.idx)>>)

\* operator<<(os, tree): what is written to os.
DumpOut(N, R, t) ==
    LET it == treeBegin(N, R, t)
        first == IF ~IterEq(N, it, treeEnd(N, R, t))
                 THEN <<ValAt(N, it.node, it.idx)>> ELSE <<>>
    IN DumpLoop(N, R, t, it, first)

\* ------------------------------------------------------------- actions
\* btree::insert
Insert(t, e) ==
    /\ ~Crashed
    /\ Usable(t)
    /\ LET r == nodeInsert(nodes, rootNode[t], e) IN
        /\ nodes' = r.N
        /\ res' = [NoRes EXCEPT !.op = "insert", !.t = t, !.e = e,
                                !.pos = r.pos, !.ok = r.ok]
    /\ elems' = [elems EXCEPT ![t] = @ \cup {e}]
    /\ UNCHANGED <<rootNode, live>>

\* btree::find, both overloads (nodeFind and cNodeFind are the same code).
Find(t, e, hit) ==
    /\ ~Crashed
    /\ Usable(t)
    /\ LET r == nodeFind(nodes, rootNode, rootNode[t], e, hit) IN
        res' = IF r.crash
               THEN [CrashRes("find") EXCEPT !.t = t, !.e = e, !.past = r.past]
               ELSE [NoRes EXCEPT !.op = "find", !.t = t, !.e = e,
                                  !.pos = r.pos, !.past = r.past]
    /\ UNCHANGED <<nodes, rootNode, live, elems>>

\* btree::begin / cbegin
Begin(t) ==
    /\ ~Crashed
    /\ Usable(t)
    /\ res' = [NoRes EXCEPT !.op = "begin", !.t = t,
                            !.pos = treeBegin(nodes, rootNode, t)]
    /\ UNCHANGED <<nodes, rootNode, live, elems>>

\* btree::end / cend
End(t) ==
    /\ ~Crashed
    /\ Usable(t)
    /\ res' = [NoRes EXCEPT !.op = "end", !.t = t,
                            !.pos = treeEnd(nodes, rootNode, t)]
    /\ UNCHANGED <<nodes, rootNode, live, elems>>

\* operator++ on the iterator the client holds; advancing an iterator that
\* stands on no element is the caller's error and is not taken.
Inc ==
    /\ ~Crashed
    /\ HasIter
    /\ OnElement(nodes, res.pos)
    /\ LET q == IterInc(nodes, rootNode, res.pos) IN
        res' = IF q = Crash THEN [CrashRes("inc") EXCEPT !.t = res.t]
               ELSE [NoRes EXCEPT !.op = "inc", !.t = res.t, !.pos = q]
    /\ UNCHANGED <<nodes, rootNode, live, elems>>

\* The nodes at which T temp = (*pos) of operator-- on the iterator p reads
\* outside the elements: pos is not tested against val.end() before.
DecReadsPast(N, p) == IF OnElement(N, p) THEN {} ELSE {p.node}

\* operator-- on the iterator the client holds.
Dec ==
    /\ ~Crashed
    /\ HasIter
    /\ \E g \in (IF OnElement(nodes, res.pos) THEN {0} ELSE Garbage) :
         LET q == IterDec(nodes, rootNode, res.pos, g) IN
         res' = IF q = Crash
                THEN [CrashRes("dec") EXCEPT !.t = res.t,
                                             !.past = DecReadsPast(nodes, res.pos)]
                ELSE [NoRes EXCEPT !.op = "dec", !.t = res.t, !.pos = q,
                                   !.past = DecReadsPast(nodes, res.pos)]
    /\ UNCHANGED <<nodes, rootNode, live, elems>>

\* *t.rbegin() on a tree with rbegin() != rend(): rbegin() wraps end(), and
\* std::reverse_iterator::operator* steps a copy of it back with operator--
\* and returns the element there.
RDeref(t) ==
    /\ ~Crashed
    /\ Usable(t)
    /\ ~IterEq(nodes, treeEnd(nodes, rootNode, t), treeBegin(nodes, rootNode, t))
    /\ \E g \in Garbage :
         LET cur == treeEnd(nodes, rootNode, t)
             q == IterDec(nodes, rootNode, cur, g)
         IN
         res' = IF ~OnElement(nodes, q)
                THEN [CrashRes("rderef") EXCEPT !.t = t,
                                                !.past = DecReadsPast(nodes, cur)]
                ELSE [NoRes EXCEPT !.op = "rderef", !.t = t, !.pos = q,
                                   !.e = ValAt(nodes, q.node, q.idx),
                                   !.past = DecReadsPast(nodes, cur)]
    /\ UNCHANGED <<nodes, rootNode, live, elems>>

\* operator<<
Dump(t) ==
    /\ ~Crashed
    /\ Usable(t)
    /\ res' = [NoRes EXCEPT !.op = "dump", !.t = t,
                            !.out = DumpOut(nodes, rootNode, t)]
    /\ UNCHANGED <<nodes, rootNode, live, elems>>

\* insert, find, begin, end or operator<< on a moved-from btree:
\* rootNode-> with rootNode = nullptr.
UseMovedFrom(t) ==
    /\ ~Crashed
    /\ live[t] /\ rootNode[t] = Null
    /\ res' = [CrashRes("movedFrom") EXCEPT !.t = t]
    /\ UNCHANGED <<nodes, rootNode, live, elems>>

\* btree(const btree& original), constructing dst from src.
CopyConstruct(dst, src) ==
    /\ ~Crashed
    /\ ~live[dst] /\ live[src]
    /\ IF rootNode[src] = Null
       THEN UNCHANGED <<nodes, rootNode>>
       ELSE LET c == CopyTree(nodes, rootNode[src], dst) IN
            /\ nodes' = c.N
            /\ rootNode' = [rootNode EXCEPT ![dst] = c.root]
    /\ live' = [live EXCEPT ![dst] = TRUE]
    /\ elems' = [elems EXCEPT ![dst] = elems[src]]
    /\ res' = [NoRes EXCEPT !.op = "copyCtor", !.t = dst, !.src = src]

\* btree(btree&& original), constructing dst from src.
MoveConstruct(dst, src) ==
    /\ ~Crashed
    /\ ~live[dst] /\ live[src]
    /\ rootNode' = [rootNode EXCEPT ![dst] = rootNode[src], ![src] = Null]
    /\ live' = [live EXCEPT ![dst] = TRUE]
    /\ elems' = [elems EXCEPT ![dst] = elems[src], ![src] = {}]
    /\ IF rootNode[src] = Null
       THEN \* rootNode->changeRoot(this) with rootNode = nullptr
            /\ nodes' = nodes
            /\ res' = [CrashRes("moveCtor") EXCEPT !.t = dst, !.src = src]
       ELSE /\ nodes' = changeParent(changeRoot(nodes, rootNode[src], dst),
                                     rootNode[src], Null)
            /\ res' = [NoRes EXCEPT !.op = "moveCtor", !.t = dst, !.src = src]

\* operator=(btree&&) that copies the shared_ptr of rhs and leaves it there.
MoveAssignBodyShares(N, thisRoot, rhsRoot, this) ==
    LET N1 == Reset(N, thisRoot) IN
    IF rhsRoot = Null
    THEN [N |-> N1, thisRoot |-> Null, rhsRoot |-> Null, crash |-> TRUE]
    ELSE [N |-> changeRoot(N1, rhsRoot, this), thisRoot |-> rhsRoot,
          rhsRoot |-> rhsRoot, crash |-> FALSE]

\* The body of btree::operator=(btree&& rhs) for this # &rhs: the heap and the
\* two rootNode members afterwards, or a crash when rhs has no root.
MoveAssignBody(N, thisRoot, rhsRoot, this) ==
    LET N1 == Reset(N, thisRoot) IN
    IF rhsRoot = Null
    THEN [N |-> N1, thisRoot |-> Null, rhsRoot |-> Null, crash |-> TRUE]
    ELSE [N |-> changeRoot(N1, rhsRoot, this), thisRoot |-> rhsRoot,
          rhsRoot |-> Null, crash |-> FALSE]

\* btree::operator=(btree&& rhs), dst = std::move(src).
MoveAssign(dst, src) ==
    /\ ~Crashed
    /\ live[dst] /\ live[src]
    /\ IF dst = src
       THEN /\ UNCHANGED <<nodes, rootNode, elems>>
            /\ res' = [NoRes EXCEPT !.op = "moveAssign", !.t = dst, !.src = src]
       ELSE LET m == MoveAssignBody(nodes, rootNode[dst], rootNode[src], dst) IN
            /\ nodes' = m.N
            /\ rootNode' = [rootNode EXCEPT ![dst] = m.thisRoot,
                                            ![src] = m.rhsRoot]
            /\ elems' = [elems EXCEPT ![dst] = elems[src], ![src] = {}]
            /\ res' = IF m.crash
                      THEN [CrashRes("moveAssign") EXCEPT !.t = dst, !.src = src]
                      ELSE [NoRes EXCEPT !.op = "moveAssign", !.t = dst,
                                         !.src = src]
    /\ UNCHANGED live

\* btree::operator=(const btree& rhs), dst = src.
CopyAssign(dst, src) ==
    /\ ~Crashed
    /\ live[dst] /\ live[src]
    /\ IF dst = src
       THEN /\ UNCHANGED <<nodes, rootNode, elems>>
            /\ res' = [NoRes EXCEPT !.op = "copyAssign", !.t = dst, !.src = src]
       ELSE
         LET N1 == Reset(nodes, rootNode[dst])
             \* btree<T> tmp{rhs};
             tmp == IF rootNode[src] = Null THEN [N |-> N1, root |-> Null]
                    ELSE CopyTree(N1, rootNode[src], TmpTree)
             \* *this = std::move(tmp);
             m == MoveAssignBody(tmp.N, Null, tmp.root, dst)
         IN
         /\ rootNode' = [rootNode EXCEPT ![dst] = m.thisRoot]
         /\ elems' = [elems EXCEPT ![dst] = elems[src]]
         /\ IF m.crash
            THEN /\ nodes' = m.N
                 /\ res' = [CrashRes("copyAssign") EXCEPT !.t = dst, !.src = src]
            ELSE /\ nodes' = changeParent(changeRoot(m.N, m.thisRoot, dst),
                                          m.thisRoot, Null)
                 /\ res' = [NoRes EXCEPT !.op = "copyAssign", !.t = dst,
                                         !.src = src]
    /\ UNCHANGED live

\* ------------------------------------------------------------- behaviours
\* btree(size_t maxNodeElems) has built btree object 1: one empty root Node.
Init ==
    /\ \E cap \in Caps :
          nodes = [id \in NodeIds |->
                     IF id = 1 THEN NewNode(1, Null, cap) ELSE FreeNode]
    /\ rootNode = [t \in TreeIds |-> IF t = 1 THEN 1 ELSE Null]
    /\ live = [t \in TreeIds |-> t = 1]
    /\ elems = [t \in TreeIds |-> {}]
    /\ res = [NoRes EXCEPT !.op = "construct", !.t = 1]

\* One btree object: insert, find, iteration and operator<<.
Next ==
    \/ \E e \in Elems : Insert(1, e)
    \/ \E e \in Elems, hit \in NodeIds \cup {Null} : Find(1, e, hit)
    \/ Begin(1)
    \/ End(1)
    \/ Inc
    \/ Dec
    \/ RDeref(1)
    \/ Dump(1)

Spec == Init /\ [][Next]_vars

\* Elements inserted when two btree objects are copied and moved.
CopyMaxElem == 2
CopyElems == 1 .. CopyMaxElem

\* Two btree objects: construction, insert, copy, move and destruction.
NextCopy ==
    \/ \E t \in TreeIds, e \in CopyElems : Insert(t, e)
    \/ \E d, s \in TreeIds : CopyConstruct(d, s)
    \/ \E d, s \in TreeIds : MoveConstruct(d, s)
    \/ \E d, s \in TreeIds : CopyAssign(d, s)
    \/ \E d, s \in TreeIds : MoveAssign(d, s)
    \/ \E t \in TreeIds : UseMovedFrom(t)

SpecCopy == Init /\ [][NextCopy]_vars

\* ------------------------------------------------------------- properties
\* The client loop for (it = begin(); it != end(); ++it) over btree t: the
\* elements it visits.  A walk that dies, leaves the elements or does not end
\* closes with 0, which is no element.
RECURSIVE WalkFrom(_, _, _, _, _)
WalkFrom(N, R, t, it, fuel) ==
    IF it = Crash THEN <<0>>
    ELSE IF IterEq(N, it, treeEnd(N, R, t)) THEN <<>>
    ELSE IF fuel = 0 \/ ~OnElement(N, it) THEN <<0>>
    ELSE <<ValAt(N, it.node, it.idx)>>
           \o WalkFrom(N, R, t, IterInc(N, R, it), fuel - 1)

Walk(N, R, t) == WalkFrom(N, R, t, treeBegin(N, R, t), MaxElem + 1)

StrictlyIncreasing(w) == \A i \in 1 .. (Len(w) - 1) : w[i] < w[i + 1]

Range(w) == {w[i] : i \in DOMAIN w}

\* The nodes of the graph under node n.
RECURSIVE NodesUnder(_, _)
NodesUnder(N, n) ==
    IF n = Null THEN {}
    ELSE {n} \cup UNION {NodesUnder(N, N[n].children[k]) :
                            k \in DOMAIN N[n].children}

\* The number of elements stored under node n.
RECURSIVE CountUnder(_, _)
RECURSIVE CountSlots(_, _, _)
CountUnder(N, n) == IF n = Null THEN 0 ELSE Size(N, n) + CountSlots(N, n, 0)
CountSlots(N, n, i) ==
    IF i >= Len(N[n].children) THEN 0
    ELSE CountUnder(N, Child(N, n, i)) + CountSlots(N, n, i + 1)

\* The depth of node n: the number of parent links above it.
RECURSIVE Depth(_, _)
Depth(N, n) == IF N[n].parent = Null THEN 0 ELSE 1 + Depth(N, N[n].parent)

\* C1: walking from begin() to end() with operator++ visits a strictly
\* increasing sequence that is exactly the set of elements inserted so far,
\* each once, for every capacity and every sequence of inserts.
C1_SortedUnique ==
    \A t \in TreeIds : Usable(t) =>
        LET w == Walk(nodes, rootNode, t) IN
        /\ StrictlyIncreasing(w)
        /\ Range(w) = elems[t]
        /\ Len(w) = Cardinality(elems[t])

\* C1 witness: MaxElem elements spread over nodes three levels deep have been
\* inserted and are walked in order.
C1_Witness ==
    /\ res.op = "insert"
    /\ Cardinality(elems[1]) = MaxElem
    /\ \E n \in NodeIds : nodes[n].used /\ Depth(nodes, n) >= 2
    /\ Len(Walk(nodes, rootNode, 1)) = MaxElem

\* The text operator<< is meant to write for the sorted sequence w: the
\* elements with one space between neighbours.
RECURSIVE Joined(_)
Joined(w) ==
    IF Len(w) <= 1 THEN w
    ELSE <<w[1], Space>> \o Joined(Tail(w))

\* The increasing sequence of the elements of the set S.
RECURSIVE SortedSeq(_)
SortedSeq(S) ==
    IF S = {} THEN <<>>
    ELSE LET m == CHOOSE x \in S : \A y \in S : x <= y IN
         <<m>> \o SortedSeq(S \ {m})

\* C2: operator<< on a tree of N distinct elements writes each stored element
\* once, in sorted order, separated by single spaces, and nothing for an
\* empty tree.
C2_DumpOnce ==
    res.op = "dump" => res.out = Joined(SortedSeq(elems[res.t]))

\* C10: no node holds more than maxNodeElems elements, every node with a
\* child holds exactly maxNodeElems, and every node but the root holds at
\* least one element.
C10_FillPolicy ==
    \A n \in NodeIds : nodes[n].used =>
        /\ Size(nodes, n) <= nodes[n].maxSize
        /\ (\E k \in DOMAIN nodes[n].children : nodes[n].children[k] # Null)
              => Size(nodes, n) = nodes[n].maxSize
        /\ nodes[n].parent # Null => Size(nodes, n) >= 1

\* C10 witness: with the largest capacity, an insert has just put the first
\* element of a node below the full root.
C10_Witness ==
    /\ res.op = "insert" /\ res.ok
    /\ res.pos.node # rootNode[1]
    /\ Size(nodes, res.pos.node) = 1
    /\ nodes[res.pos.node].maxSize = MaxCap
    /\ Depth(nodes, res.pos.node) >= 1
    /\ Size(nodes, rootNode[1]) = MaxCap

\* C3: find(x) returns a position whose element equals x if and only if x was
\* inserted before, and a position equal to end() otherwise, on every tree
\* including the empty one.
C3_FindCorrect ==
    /\ ~(res.op = "crash" /\ res.call = "find")
    /\ res.op = "find" =>
          IF res.e \in elems[res.t]
          THEN /\ OnElement(nodes, res.pos)
               /\ ValAt(nodes, res.pos.node, res.pos.idx) = res.e
          ELSE IterEq(nodes, res.pos, treeEnd(nodes, rootNode, res.t))

\* C8: during find, at every visited node the element at the search point is
\* read only when the search point is a valid element index.
C8_FindReadsInBounds ==
    (res.op = "find" \/ (res.op = "crash" /\ res.call = "find"))
        => res.past = {}

\* C4: insert(e) returns inserted = true exactly when e is not in the tree,
\* and then the element count grows by one; otherwise it changes no node,
\* returns false and, called right after an insert of e, returns the position
\* that insert returned, which is also the position find(e) returns then.
C4_InsertStep ==
    /\ res'.op = "insert" =>
          LET t == res'.t IN
          /\ res'.ok <=> res'.e \notin elems[t]
          /\ res'.ok => CountUnder(nodes', rootNode'[t])
                           = CountUnder(nodes, rootNode[t]) + 1
          /\ ~res'.ok =>
                /\ nodes' = nodes
                /\ (res.op = "insert" /\ res.t = t /\ res.e = res'.e)
                      => res'.pos = res.pos
    /\ (res.op = "insert" /\ res'.t = res.t /\ res'.e = res.e
          /\ (res'.op = "find" \/ (res'.op = "crash" /\ res'.call = "find")))
          => res'.pos = res.pos

C4_InsertIdempotent == [][C4_InsertStep]_vars

\* The positions of the elements stored in btree t.
ElementPositions(N, R, t) ==
    {p \in [node : NodesUnder(N, R[t]), idx : 0 .. (MaxCap - 1)] :
        OnElement(N, p)}

\* operator++ applied k times from p; a step from no element is lost.
RECURSIVE IncTimes(_, _, _, _)
IncTimes(N, R, p, k) ==
    IF k = 0 THEN p
    ELSE IF ~OnElement(N, p) THEN Crash
    ELSE IncTimes(N, R, IterInc(N, R, p), k - 1)

\* operator-- applied k times from p, g read behind the elements at end().
RECURSIVE DecTimes(_, _, _, _, _)
DecTimes(N, R, p, k, g) ==
    IF k = 0 \/ p = Crash THEN p
    ELSE DecTimes(N, R, IterDec(N, R, p, g), k - 1, g)

\* C5: operator++ applied N times from begin() reaches end() and not before,
\* following no null parent; operator-- applied N times from end() reaches
\* begin() through strictly decreasing elements; operator++ then operator--
\* from a position on an element returns to it.
C5_RoundTrip ==
    \A t \in TreeIds : Usable(t) =>
        LET N == nodes
            R == rootNode
            cnt == CountUnder(N, R[t])
            b == treeBegin(N, R, t)
            e == treeEnd(N, R, t)
        IN
        /\ IncTimes(N, R, b, cnt) = e
        /\ \A k \in 0 .. (cnt - 1) :
              /\ OnElement(N, IncTimes(N, R, b, k))
              /\ ~IterEq(N, IncTimes(N, R, b, k), e)
        /\ \A g \in Garbage :
              /\ DecTimes(N, R, e, cnt, g) = b
              /\ \A k \in 1 .. cnt :
                    LET p == DecTimes(N, R, e, k, g) IN
                    /\ OnElement(N, p)
                    /\ k > 1 =>
                         LET q == DecTimes(N, R, e, k - 1, g) IN
                         ValAt(N, p.node, p.idx) < ValAt(N, q.node, q.idx)
        /\ \A p \in ElementPositions(N, R, t) : \A g \in Garbage :
              IterDec(N, R, IterInc(N, R, p), g) = p

\* C5 witness: operator++ has just arrived at end() of a tree of MaxElem
\* elements by climbing out of a node two levels below the root.
C5_Witness ==
    /\ res.op = "inc"
    /\ res.pos = treeEnd(nodes, rootNode, 1)
    /\ CountUnder(nodes, rootNode[1]) = MaxElem
    /\ \E n \in NodeIds :
          /\ nodes[n].used /\ Depth(nodes, n) >= 2
          /\ ValAt(nodes, n, Size(nodes, n) - 1) = MaxElem

\* The Node objects in use.
Used(N) == {n \in NodeIds : N[n].used}

\* What a Node holds apart from its back-references.
Payload(N, n) == [val |-> N[n].val, children |-> N[n].children,
                  maxSize |-> N[n].maxSize]

\* C6: a copy (construction or assignment) gives the target the traversal the
\* source has, leaves the source as it was and shares no node with it; an
\* insert into one tree leaves the traversal and the nodes of the other
\* unchanged; self-assignment changes nothing.
C6_CopyStep ==
    /\ (res'.op \in {"copyCtor", "copyAssign"} /\ res'.t # res'.src
          /\ rootNode[res'.src] # Null) =>
          LET d == res'.t
              a == res'.src
          IN
          /\ Walk(nodes', rootNode', d) = Walk(nodes, rootNode, a)
          /\ Walk(nodes', rootNode', a) = Walk(nodes, rootNode, a)
          /\ rootNode'[a] = rootNode[a]
          /\ \A n \in NodesUnder(nodes, rootNode[a]) : nodes'[n] = nodes[n]
          /\ NodesUnder(nodes', rootNode'[d])
                \cap NodesUnder(nodes', rootNode'[a]) = {}
    /\ res'.op = "insert" =>
          \A u \in TreeIds \ {res'.t} : Usable(u) =>
             /\ Walk(nodes', rootNode', u) = Walk(nodes, rootNode, u)
             /\ rootNode'[u] = rootNode[u]
             /\ \A n \in NodesUnder(nodes, rootNode[u]) : nodes'[n] = nodes[n]
             /\ NodesUnder(nodes', rootNode'[u])
                   \cap NodesUnder(nodes', rootNode'[res'.t]) = {}
    /\ (res'.op = "copyAssign" /\ res'.t = res'.src) =>
          /\ nodes' = nodes
          /\ rootNode' = rootNode

C6_CopyIndependent == [][C6_CopyStep]_vars

\* C6 witness: with both trees alive, an insert has just put into a new child
\* node of one tree an element the other tree does not hold, the other tree
\* holding an element that the first holds too.
C6_Witness ==
    /\ res.op = "insert" /\ res.ok
    /\ Usable(1) /\ Usable(2)
    /\ res.pos.node # rootNode[res.t]
    /\ \E u \in TreeIds \ {res.t} :
          /\ elems[u] # {}
          /\ elems[u] \subseteq elems[res.t]
          /\ res.e \notin elems[u]
          /\ Range(Walk(nodes, rootNode, u)) = elems[u]

\* C7: a move (construction or assignment) from a tree with a root gives the
\* target the traversal the source had, hands over the very nodes of the
\* source without creating one, and leaves the source without a root.
C7_MoveStep ==
    (res'.op \in {"moveCtor", "moveAssign"} /\ res'.t # res'.src) =>
        LET d == res'.t
            a == res'.src
            moved == NodesUnder(nodes, rootNode[a])
        IN
        /\ rootNode[a] # Null
        /\ Walk(nodes', rootNode', d) = Walk(nodes, rootNode, a)
        /\ rootNode'[d] = rootNode[a]
        /\ rootNode'[a] = Null
        /\ NodesUnder(nodes', rootNode'[d]) = moved
        /\ \A n \in moved : Payload(nodes', n) = Payload(nodes, n)
        /\ Used(nodes') = Used(nodes) \ NodesUnder(nodes, rootNode[d])

C7_MoveKeepsNodes == [][C7_MoveStep]_vars

\* C7 witness: a move assignment has handed over a tree of CopyMaxElem
\* elements that has a child node, and the source is left without a root.
C7_Witness ==
    /\ res.op = "moveAssign" /\ res.t # res.src
    /\ rootNode[res.src] = Null
    /\ Len(Walk(nodes, rootNode, res.t)) = CopyMaxElem
    /\ \E n \in NodesUnder(nodes, rootNode[res.t]) : Depth(nodes, n) >= 1

\* C9: for every tree with a root, the root has no parent, every node under
\* the root names that tree as its owner, and every node in a child slot of
\* a node P names P as its parent.
C9_BackReferences ==
    \A t \in TreeIds : (live[t] /\ rootNode[t] # Null) =>
        /\ nodes[rootNode[t]].parent = Null
        /\ \A n \in NodesUnder(nodes, rootNode[t]) :
              /\ nodes[n].used
              /\ nodes[n].root = t
              /\ \A k \in DOMAIN nodes[n].children :
                    nodes[n].children[k] # Null
                       => nodes[nodes[n].children[k]].parent = n

\* C9 witness: a copy assignment has rebuilt a tree that has a child node,
\* next to the tree it was copied from.
C9_Witness ==
    /\ res.op = "copyAssign" /\ res.t # res.src
    /\ Usable(res.src)
    /\ \E n \in NodesUnder(nodes, rootNode[res.t]) :
          Depth(nodes, n) >= 1 /\ nodes[n].root = res.t

\* C11: stepping a position reads an element of the current node only at a
\* valid element index; operator-- applied to end() of a non-empty tree, the
\* first step of a reverse iteration from rbegin(), moves to the maximum
\* element without reading the buffer at index = element count.
C11_StepReadsInBounds ==
    /\ (res.op \in {"inc", "dec", "rderef"}
          \/ (res.op = "crash" /\ res.call \in {"inc", "dec", "rderef"}))
          => res.past = {}
    /\ res.op = "rderef" =>
          /\ res.e \in elems[res.t]
          /\ \A x \in elems[res.t] : x <= res.e

====
